---- MODULE Spec2Model ----
(***************************************************************************)
(* Model of src/huskyMcpChat.py: the HuskyLensClient protocol client (an   *)
(* SSE listener task, a request correlator keyed by request id, the        *)
(* connect/initialize handshake, close) and the main() driver that uses it.*)
(*                                                                         *)
(* Tasks are asyncio tasks of one event loop: an action is the code a task *)
(* runs between two suspension points (await).  "main" is the task running *)
(* main(); Callers are further tasks that share the client object and call *)
(* call_tool() on it; the listener is the task created by connect().       *)
(***************************************************************************)
EXTENDS Integers, Sequences, FiniteSets, TLC

\* ------------------------------------------------------------------ bounds
\* request ids issued in one run (guards the unbounded request_id counter)
MaxId == 2

\* ------------------------------------------------------- program constants
\* `for _ in range(50)` in connect()
MaxPolls == 50

Callers == {"c1"}
Tasks == {"main"} \cup Callers

None == <<>>

\* SERVER_URL, as a sequence of text tokens
SERVER_URL == <<"BASE">>

\* str.rstrip('/'): the text without its trailing '/' tokens
RECURSIVE rstrip(_)
rstrip(s) ==
    IF Len(s) > 0 /\ s[Len(s)] = "/" THEN rstrip(SubSeq(s, 1, Len(s) - 1)) ELSE s

\* `self.server_url = server_url.rstrip('/')`
server_url == rstrip(SERVER_URL)

VARIABLES
    apiKey,             \* GEMINI_API_KEY is non-empty
    session,            \* self.session: "none" | "open" | "closed"
    request_id,         \* self.request_id
    message_url,        \* self.message_url: None or a token sequence
    pending_responses,  \* self.pending_responses: id -> future
    initialized,        \* self.initialized
    sse_task,           \* self.sse_task: "none" | "running" | "cancelled" | "finished"
    mpc,                \* where main() is
    polls,              \* iterations of connect()'s polling loop done
    pc,                 \* per task: where it is inside _send_request
    req,                \* per task: req_id of its current / last _send_request
    elapsed,            \* per task: the timeout of its asyncio.wait_for has elapsed
    result,             \* per task: what its last call returned
    posted,             \* history: the POSTs issued on the session
    connect_error,      \* history: why connect() raised
    loop_entered,       \* history: main_loop() was entered
    closeCalls,         \* history: close() calls: 0 none, 1 an odd number, 2 an even one
    closeRaised,        \* history: some close() raised
    events,             \* history: the last listener event of note
    arg,                \* the input of a function applied on its own
    ret                 \* what that function returned

vars == <<apiKey, session, request_id, message_url, pending_responses,
          initialized, sse_task, mpc, polls, pc, req, elapsed, result, posted,
          connect_error, loop_entered, closeCalls, closeRaised, events, arg, ret>>

\* ---------------------------------------------------------------- futures
FutPending == [state |-> "pending"]
FutCancelled == [state |-> "cancelled"]
FutDone(v) == [state |-> "done", value |-> v]

\* ----------------------------------------------------------------- results
NoResult == [t |-> "none"]
\* `raise Exception("Not connected.")`
NotConnected == [t |-> "raised", msg |-> "Not connected."]
\* `return {"error": str(e)}`
ErrorResult(m) == [t |-> "error", msg |-> m]

HasError(r) == r.t = "error"
IsEnvelope(r) == r.t = "object"

\* ------------------------------------------------------------ stream lines
\* A line of the event stream is [utf8, pre, toks, json]: whether its bytes
\* are valid UTF-8 (line.decode('utf-8') raises when they are not), whether it
\* starts with 'data: ', the payload after the prefix as a sequence of text
\* tokens, and what json.loads makes of the payload.
HexToks == {"abc-123"}

JInvalid == [t |-> "invalid"]
JScalar == [t |-> "scalar"]
JNoId == [t |-> "object", hasId |-> FALSE]
Envelope(i, b) == [t |-> "object", hasId |-> TRUE, id |-> i, body |-> b]

EnvelopeIds == 1..MaxId

Data(toks, j) == [utf8 |-> TRUE, pre |-> TRUE, toks |-> toks, json |-> j]

AnnounceLines ==
    { Data(<<"/message", "?", "session_id=", h>>, JInvalid) : h \in HexToks }
BadAnnounceLine == Data(<<"session_id=", "xyz">>, JInvalid)
BarePathLine == Data(<<"/message", "/x">>, JInvalid)
DoneLine == Data(<<"[DONE]">>, JInvalid)
MalformedLine == Data(<<"{oops">>, JInvalid)
ScalarLine == Data(<<"42">>, JScalar)
NoIdLine == Data(<<"{json}">>, JNoId)
\* one response per id, and a second, different response for id 1
ResponseLines ==
    { Data(<<"{json}">>, Envelope(i, "A")) : i \in EnvelopeIds } \cup
    { Data(<<"{json}">>, Envelope(1, "B")) }
NoPrefixLine ==
    [utf8 |-> TRUE, pre |-> FALSE, toks |-> <<"event: message">>, json |-> JInvalid]
\* lines with a byte that is not valid UTF-8: one without the prefix, and one
\* whose payload is therefore not JSON either
BadBytesLines ==
    { [utf8 |-> FALSE, pre |-> FALSE, toks |-> <<"\\xff">>, json |-> JInvalid],
      [utf8 |-> FALSE, pre |-> TRUE, toks |-> <<"{json", "\\xff", "}">>,
       json |-> JInvalid] }
\* lines that carry no announcement and no response: no prefix, the sentinel,
\* not JSON, not an object, no 'id'
DroppedLines ==
    {NoPrefixLine, DoneLine, MalformedLine, ScalarLine, NoIdLine} \cup BadBytesLines
\* responses to request 1 whose text contains 'session_id=', without and with
\* an endpoint path in it
MentionLines ==
    { Data(<<"{json", "session_id=", "}">>, Envelope(1, "A")),
      Data(<<"{json", "/message", "?", "session_id=", "abc-123", "}">>,
           Envelope(1, "A")) }

Lines == AnnounceLines \cup ResponseLines \cup DroppedLines \cup MentionLines \cup
         {BadAnnounceLine, BarePathLine}

\* `'session_id=' in data`
Contains(toks, tok) == \E i \in 1..Len(toks) : toks[i] = tok

\* `data.startswith('/message')`
StartsWith(toks, tok) == Len(toks) > 0 /\ toks[1] = tok

\* the end of the longest run of [a-f0-9-] tokens that starts at position i
RECURSIVE HexRunEnd(_, _)
HexRunEnd(toks, i) ==
    IF i < Len(toks) /\ toks[i + 1] \in HexToks THEN HexRunEnd(toks, i + 1) ELSE i

MatchesAt(toks, i) ==
    /\ i + 3 <= Len(toks)
    /\ toks[i] = "/message"
    /\ toks[i + 1] = "?"
    /\ toks[i + 2] = "session_id="
    /\ toks[i + 3] \in HexToks

\* the pattern without its `+`: the match ends after one token of the id
re_search_one(toks) ==
    LET starts == { i \in 1..Len(toks) : MatchesAt(toks, i) }
    IN  IF starts = {} THEN None
        ELSE LET i == CHOOSE k \in starts : \A m \in starts : k <= m
             IN  SubSeq(toks, i, i + 3)

\* re.search(r'(/message\?session_id=[a-f0-9-]+)', data): group 1 of the
\* leftmost match, None when there is none
re_search(toks) ==
    LET starts == { i \in 1..Len(toks) : MatchesAt(toks, i) }
    IN  IF starts = {} THEN None
        ELSE LET i == CHOOSE k \in starts : \A m \in starts : k <= m
             IN  SubSeq(toks, i, HexRunEnd(toks, i + 3))

\* json.loads(data); "invalid" stands for the exception it raises
json_loads(line) == line.json

\* ------------------------------------------------- the pending-request dict
Put(p, id, f) == [i \in DOMAIN p \cup {id} |-> IF i = id THEN f ELSE p[i]]
Del(p, id) == [i \in DOMAIN p \ {id} |-> p[i]]

\* an except clause that forgets the `del`
CleanupKeeps(p, id) == p

\* `if req_id in self.pending_responses: del self.pending_responses[req_id]`
Cleanup(p, id) == IF id \in DOMAIN p THEN Del(p, id) ELSE p

\* `if json_data['id'] in self.pending_responses:` guards the set_result
IsRegistered(p, id) == id \in DOMAIN p

\* Future.set_result: raises InvalidStateError unless the future is pending
SetResultRaises(f) == f.state # "pending"

\* a listener that keeps a response to an unknown id for a later call
ResolveOrCreate(p, j) ==
    IF j.t = "object" /\ j.hasId
    THEN IF IsRegistered(p, j.id) /\ SetResultRaises(p[j.id]) THEN p
         ELSE Put(p, j.id, FutDone(j))
    ELSE p

\* a listener that completes the oldest pending request, whatever the id
ResolveOldestPending(p, j) ==
    LET open == { k \in DOMAIN p : p[k].state = "pending" }
    IN  IF j.t = "object" /\ j.hasId /\ open # {}
        THEN Put(p, CHOOSE k \in open : \A m \in open : k <= m, FutDone(j))
        ELSE p

\* a listener that replaces the result of a future that is already done
ResolveOverwrite(p, j) ==
    IF j.t = "object" /\ j.hasId /\ IsRegistered(p, j.id)
    THEN IF p[j.id].state = "cancelled" THEN p ELSE Put(p, j.id, FutDone(j))
    ELSE p

\* the listener's handling of a parsed payload, inside `try: ... except: pass`:
\* the dict after it (an exception raised by set_result is swallowed)
Resolve(p, j) ==
    IF j.t = "object" /\ j.hasId /\ IsRegistered(p, j.id)
    THEN IF SetResultRaises(p[j.id]) THEN p ELSE Put(p, j.id, FutDone(j))
    ELSE p

\* the listener task after a payload went through `try: ... except: pass`:
\* whatever was raised is swallowed and the task reads on
AfterPayload(task, p, j) == task

\* a payload test that lets every payload but the sentinel reach json.loads
IsJsonCandidateAlways(toks) == toks # <<"[DONE]">>

\* the submission endpoint after the listener of a client with server_url
\* `base` has seen the payload `toks`
EndpointFrom(base, url, toks) ==
    IF Contains(toks, "session_id=")
    THEN IF re_search(toks) # None THEN base \o re_search(toks) ELSE url
    ELSE IF StartsWith(toks, "/message") THEN base \o toks ELSE url

Endpoint(url, toks) == EndpointFrom(server_url, url, toks)

\* the payload reaches the json.loads branch (no `continue` before it)
IsJsonCandidate(toks) ==
    /\ ~Contains(toks, "session_id=")
    /\ ~StartsWith(toks, "/message")
    /\ toks # <<"[DONE]">>

\* ------------------------------------------------------------------ close()
\* Task.cancel(): a running task is cancelled, a finished one stays as it is
Cancel(task) == IF task = "running" THEN "cancelled" ELSE task

\* close() without the check for a listener task
TaskGuardMissing(task) == TRUE

\* `if self.sse_task:` and `if self.session:`
TaskGuard(task) == task # "none"
SessionGuard(s) == s # "none"

\* the history of close() calls after one more call
CloseCount(n) == IF n < 2 THEN n + 1 ELSE 1

\* close(): cancels the listener and closes the session; calling a method on
\* None would raise AttributeError and skip the rest
close ==
    LET raises1 == TaskGuard(sse_task) /\ sse_task = "none"
        raises2 == ~raises1 /\ SessionGuard(session) /\ session = "none"
    IN  /\ sse_task' = IF TaskGuard(sse_task) /\ ~raises1 THEN Cancel(sse_task)
                       ELSE sse_task
        /\ session' = IF ~raises1 /\ SessionGuard(session) /\ ~raises2 THEN "closed"
                      ELSE session
        /\ closeRaised' = (closeRaised \/ raises1 \/ raises2)
        /\ closeCalls' = CloseCount(closeCalls)

\* ------------------------------------------------------------ _initialize
Notification == [id |-> 0, method |-> "notifications/initialized"]
Request(id, method) == [id |-> id, method |-> method]

\* _initialize after `await self._send_request("initialize", ...)` returned:
\* sets initialized and posts the notification; a POST on a closed session
\* raises, connect() propagates it and main()'s finally runs close()
after_initialize ==
    /\ initialized' = TRUE
    /\ IF message_url = None
       THEN /\ mpc' = "loop"
            /\ loop_entered' = TRUE
            /\ UNCHANGED <<posted, connect_error, session, sse_task, closeCalls,
                           closeRaised>>
       ELSE IF session = "open"
       THEN /\ posted' = posted \cup {Notification}
            /\ mpc' = "notify"
            /\ UNCHANGED <<loop_entered, connect_error, session, sse_task,
                           closeCalls, closeRaised>>
       ELSE /\ mpc' = "exited"
            /\ connect_error' = "notify_failed"
            /\ close
            /\ UNCHANGED <<posted, loop_entered>>

\* _send_request returns `res` to task t; m is where main() is if t is main
Return(t, res, m) ==
    /\ result' = [result EXCEPT ![t] = res]
    /\ pc' = [pc EXCEPT ![t] = "idle"]
    /\ IF t = "main" /\ m = "init"
       THEN after_initialize
       ELSE /\ mpc' = IF t = "main" THEN "loop" ELSE mpc
            /\ UNCHANGED <<initialized, posted, connect_error, loop_entered,
                           session, sse_task, closeCalls, closeRaised>>

\* a request whose future is not registered before the POST
RegisterLater(p, id) == p

\* `fut = asyncio.Future(); self.pending_responses[req_id] = fut`
Register(p, id) == Put(p, id, FutPending)

\* a counter that wraps around after its first value
NextIdWrap(rid) == IF rid >= 1 THEN 1 ELSE rid + 1

\* a counter that is advanced twice for one request
NextIdSkip(rid) == rid + 2

\* `self.request_id += 1`
NextId(rid) == rid + 1

\* _send_request up to its first await: allocate the id, register the future,
\* start the POST.  session.post on a closed session raises at once, so the
\* except clause runs in the same step.
send_request(t, method, m) ==
    /\ message_url # None
    /\ request_id < MaxId
    /\ request_id' = NextId(request_id)
    /\ req' = [req EXCEPT ![t] = NextId(request_id)]
    /\ elapsed' = [elapsed EXCEPT ![t] = FALSE]
    /\ IF session = "open"
       THEN /\ pending_responses' = Register(pending_responses, NextId(request_id))
            /\ posted' = posted \cup {Request(NextId(request_id), method)}
            /\ pc' = [pc EXCEPT ![t] = "posting"]
            /\ result' = [result EXCEPT ![t] = NoResult]
            /\ mpc' = IF t = "main" THEN m ELSE mpc
            /\ UNCHANGED <<initialized, connect_error, loop_entered, session,
                           sse_task, closeCalls, closeRaised>>
       ELSE /\ pending_responses' =
                Cleanup(Register(pending_responses, NextId(request_id)),
                        NextId(request_id))
            /\ Return(t, ErrorResult("Session is closed"), m)

\* -------------------------------------------------------------------- Init
NoArg == [fn |-> "none"]
Unset == [set |-> FALSE]
Returns(v) == [set |-> TRUE, val |-> v]

\* the client after __init__, and main() not yet started
ClientInit ==
    /\ apiKey \in BOOLEAN
    /\ session = "none"
    /\ request_id = 0
    /\ message_url = None
    /\ pending_responses = <<>>
    /\ initialized = FALSE
    /\ sse_task = "none"
    /\ mpc = "start"
    /\ polls = 0
    /\ pc = [t \in Tasks |-> "idle"]
    /\ req = [t \in Tasks |-> 0]
    /\ elapsed = [t \in Tasks |-> FALSE]
    /\ result = [t \in Tasks |-> NoResult]
    /\ posted = {}
    /\ connect_error = "none"
    /\ loop_entered = FALSE
    /\ closeCalls = 0
    /\ closeRaised = FALSE
    /\ events = {}

Init ==
    /\ ClientInit
    /\ arg = NoArg
    /\ ret = Unset

\* ------------------------------------------------------- main() / connect()
\* main(): returns at once without an API key; otherwise connect() opens the
\* session and creates the listener task, then starts polling
main_start ==
    /\ mpc = "start"
    /\ IF ~apiKey
       THEN /\ mpc' = "exited"
            /\ UNCHANGED <<session, sse_task, polls>>
       ELSE /\ session' = "open"
            /\ sse_task' = "running"
            /\ polls' = 0
            /\ mpc' = "polling"
    /\ UNCHANGED <<arg, ret, apiKey, request_id, message_url, pending_responses, initialized,
                   pc, req, elapsed, result, posted, connect_error, loop_entered,
                   closeCalls, closeRaised, events>>

\* one iteration of `for _ in range(50)` that finds no endpoint and sleeps
connect_sleep ==
    /\ mpc = "polling"
    /\ message_url = None
    /\ polls < MaxPolls
    /\ polls' = polls + 1
    /\ UNCHANGED <<arg, ret, apiKey, session, request_id, message_url, pending_responses,
                   initialized, sse_task, mpc, pc, req, elapsed, result, posted,
                   connect_error, loop_entered, closeCalls, closeRaised, events>>

\* a failed connect() whose exception is swallowed: main_loop() starts
connect_fail_swallowed ==
    /\ mpc = "polling"
    /\ message_url = None
    /\ polls = MaxPolls
    /\ mpc' = "loop"
    /\ loop_entered' = TRUE
    /\ UNCHANGED <<arg, ret, apiKey, session, request_id, message_url, pending_responses,
                   initialized, sse_task, polls, pc, req, elapsed, result, posted,
                   connect_error, closeCalls, closeRaised, events>>

\* the loop is exhausted and there is still no endpoint: connect() raises,
\* main()'s finally runs close() and main() ends
connect_fail ==
    /\ mpc = "polling"
    /\ message_url = None
    /\ polls = MaxPolls
    /\ mpc' = "exited"
    /\ connect_error' = "no_url"
    /\ close
    /\ UNCHANGED <<arg, ret, apiKey, request_id, message_url, pending_responses, initialized,
                   polls, pc, req, elapsed, result, posted, loop_entered, events>>

\* the endpoint is known: connect() goes on to _initialize()
connect_found ==
    /\ mpc = "polling"
    /\ polls' = 0
    /\ send_request("main", "initialize", "init")
    /\ UNCHANGED <<arg, ret, apiKey, message_url, events>>

\* the notification's POST completes: connect() returns, main_loop() starts
notify_done ==
    /\ mpc = "notify"
    /\ session = "open"
    /\ mpc' = "loop"
    /\ loop_entered' = TRUE
    /\ UNCHANGED <<arg, ret, apiKey, session, request_id, message_url, pending_responses,
                   initialized, sse_task, polls, pc, req, elapsed, result, posted,
                   connect_error, closeCalls, closeRaised, events>>

\* the notification's POST raises: connect() raises, finally runs close()
notify_fail ==
    /\ mpc = "notify"
    /\ mpc' = "exited"
    /\ connect_error' = "notify_failed"
    /\ close
    /\ UNCHANGED <<arg, ret, apiKey, request_id, message_url, pending_responses, initialized,
                   polls, pc, req, elapsed, result, posted, loop_entered, events>>

\* main_loop(): a command that calls a tool
loop_call ==
    /\ mpc = "loop"
    /\ send_request("main", "tools/call", "call")
    /\ UNCHANGED <<arg, ret, apiKey, message_url, polls, events>>

\* a loop that lets the exception of a command end it
LoopExceptionEnds == "exited"

\* `except Exception as e: print(...)` at the loop boundary: where main_loop()
\* is after a command raised
LoopException == "loop"

\* main_loop(): reading or handling a command raises (input() fails, a result
\* cannot be printed); the exception is caught and printed at the loop boundary
loop_raise ==
    /\ mpc = "loop"
    /\ mpc' = LoopException
    /\ UNCHANGED <<arg, ret, apiKey, session, request_id, message_url,
                   pending_responses, initialized, sse_task, polls, pc, req, elapsed,
                   result, posted, connect_error, loop_entered, closeCalls,
                   closeRaised, events>>

\* main_loop(): exit / quit / 7, then main()'s finally runs close()
loop_quit ==
    /\ mpc = "loop"
    /\ mpc' = "exited"
    /\ close
    /\ UNCHANGED <<arg, ret, apiKey, request_id, message_url, pending_responses, initialized,
                   polls, pc, req, elapsed, result, posted, connect_error,
                   loop_entered, events>>

\* ------------------------------------------------ call_tool / _send_request
\* call_tool by a task other than main: raises "Not connected." while the
\* endpoint is unknown, otherwise enters _send_request
call_tool(c) ==
    /\ pc[c] = "idle"
    /\ \/ /\ message_url = None
          /\ result' = [result EXCEPT ![c] = NotConnected]
          /\ UNCHANGED <<arg, ret, apiKey, session, request_id, message_url,
                         pending_responses, initialized, sse_task, mpc, polls, pc,
                         req, elapsed, posted, connect_error, loop_entered,
                         closeCalls, closeRaised, events>>
       \/ /\ send_request(c, "tools/call", mpc)
          /\ UNCHANGED <<arg, ret, apiKey, message_url, polls, events>>

\* the POST and `await resp.text()` complete; asyncio.wait_for returns at
\* once when the future is already done, otherwise the task waits
post_done(t) ==
    /\ pc[t] = "posting"
    /\ session = "open"
    /\ IF pending_responses[req[t]].state = "done"
       THEN Return(t, pending_responses[req[t]].value, mpc)
       ELSE /\ pc' = [pc EXCEPT ![t] = "waiting"]
            /\ UNCHANGED <<result, mpc, initialized, posted, connect_error,
                           loop_entered, session, sse_task, closeCalls, closeRaised>>
    /\ UNCHANGED <<arg, ret, apiKey, request_id, message_url, pending_responses, polls, req,
                   elapsed, events>>

\* the POST raises: the except clause removes the entry and returns an error
post_fail(t) ==
    /\ pc[t] = "posting"
    /\ pending_responses' = Cleanup(pending_responses, req[t])
    /\ Return(t, ErrorResult("post failed"), mpc)
    /\ UNCHANGED <<arg, ret, apiKey, request_id, message_url, polls, req, elapsed, events>>

\* the timeout passes for a task inside asyncio.wait_for(fut, timeout)
tick(t) ==
    /\ pc[t] = "waiting"
    /\ ~elapsed[t]
    /\ elapsed' = [elapsed EXCEPT ![t] = TRUE]
    /\ UNCHANGED <<arg, ret, apiKey, session, request_id, message_url, pending_responses,
                   initialized, sse_task, mpc, polls, pc, req, result, posted,
                   connect_error, loop_entered, closeCalls, closeRaised, events>>

\* the future was completed by the listener: wait_for returns its result
wait_done(t) ==
    /\ pc[t] = "waiting"
    /\ pending_responses[req[t]].state = "done"
    /\ Return(t, pending_responses[req[t]].value, mpc)
    /\ UNCHANGED <<arg, ret, apiKey, request_id, message_url, pending_responses, polls, req,
                   elapsed, events>>

\* a timer that fires at once
TimerExpiredEarly(e) == TRUE

\* the timer of wait_for(fut, timeout) has run out
TimerExpired(e) == e

\* wait_for's timeout: the future is cancelled, then the task is resumed
timeout_fire(t) ==
    /\ pc[t] = "waiting"
    /\ TimerExpired(elapsed[t])
    /\ pending_responses[req[t]].state = "pending"
    /\ pending_responses' = Put(pending_responses, req[t], FutCancelled)
    /\ pc' = [pc EXCEPT ![t] = "timedout"]
    /\ UNCHANGED <<arg, ret, apiKey, session, request_id, message_url, initialized, sse_task,
                   mpc, polls, req, elapsed, result, posted, connect_error,
                   loop_entered, closeCalls, closeRaised, events>>

\* the resumed task gets TimeoutError: the except clause removes the entry
\* and returns an error
timeout_cleanup(t) ==
    /\ pc[t] = "timedout"
    /\ pending_responses' = Cleanup(pending_responses, req[t])
    /\ Return(t, ErrorResult("timeout"), mpc)
    /\ UNCHANGED <<arg, ret, apiKey, request_id, message_url, polls, req, elapsed, events>>

\* --------------------------------------------------------------- _listen_sse
\* the history after a line is handled; it keeps the last event of note:
\* "late", a response to an id that was issued and is no longer registered;
\* "duplicate", a second, different response to an id whose future is done;
\* "mention", a response to a pending id that is taken for an announcement;
\* "undecodable", a line that could not be decoded
Observed(p, line) ==
    LET j == json_loads(line)
        env == line.utf8 /\ line.pre /\ j.t = "object" /\ j.hasId
        cand == IsJsonCandidate(line.toks)
        open == { i \in DOMAIN p : p[i].state = "pending" }
    IN  IF ~line.utf8 THEN {"undecodable"}
        ELSE IF env /\ cand /\ j.id \notin DOMAIN p
        THEN IF j.id <= request_id THEN {"late"} ELSE events
        ELSE IF env /\ cand /\ p[j.id].state = "done"
        THEN IF p[j.id].value # j THEN {"duplicate"} ELSE events
        ELSE IF env /\ ~cand /\ j.id \in open THEN {"mention"}
        ELSE events

\* one line of the stream is read and handled; the UnicodeDecodeError of
\* line.decode is raised outside the inner try: the outer except logs it and
\* the listener task ends
listen_line(line) ==
    /\ sse_task = "running"
    /\ IF ~line.utf8
       THEN /\ sse_task' = "finished"
            /\ UNCHANGED <<message_url, pending_responses>>
       ELSE IF line.pre
       THEN LET p2 == IF IsJsonCandidate(line.toks)
                      THEN Resolve(pending_responses, json_loads(line))
                      ELSE pending_responses
            IN  /\ message_url' = Endpoint(message_url, line.toks)
                /\ pending_responses' = p2
                /\ sse_task' = IF IsJsonCandidate(line.toks)
                               THEN AfterPayload(sse_task, pending_responses,
                                                 json_loads(line))
                               ELSE sse_task
       ELSE UNCHANGED <<message_url, pending_responses, sse_task>>
    /\ events' = Observed(pending_responses, line)
    /\ UNCHANGED <<arg, ret, apiKey, session, request_id, initialized, mpc, polls, pc,
                   req, elapsed, result, posted, connect_error, loop_entered,
                   closeCalls, closeRaised>>

\* the GET fails or the connection drops: the exception is logged and the
\* listener task ends
listen_error ==
    /\ sse_task = "running"
    /\ sse_task' = "finished"
    /\ UNCHANGED <<arg, ret, apiKey, session, request_id, message_url, pending_responses,
                   initialized, mpc, polls, pc, req, elapsed, result, posted,
                   connect_error, loop_entered, closeCalls, closeRaised, events>>

\* close() called by a task other than main
ext_close ==
    /\ close
    /\ UNCHANGED <<arg, ret, apiKey, request_id, message_url, pending_responses, initialized,
                   mpc, polls, pc, req, elapsed, result, posted, connect_error,
                   loop_entered, events>>

\* --------------------------------------------------------------------- Next
Next ==
    \/ main_start
    \/ connect_sleep
    \/ connect_fail
    \/ connect_found
    \/ notify_done
    \/ notify_fail
    \/ loop_call
    \/ loop_raise
    \/ loop_quit
    \/ ext_close
    \/ listen_error
    \/ \E line \in Lines : listen_line(line)
    \/ \E c \in Callers : call_tool(c)
    \/ \E t \in Tasks : post_done(t)
    \/ \E t \in Tasks : post_fail(t)
    \/ \E t \in Tasks : tick(t)
    \/ \E t \in Tasks : wait_done(t)
    \/ \E t \in Tasks : timeout_fire(t)
    \/ \E t \in Tasks : timeout_cleanup(t)

Spec == Init /\ [][Next]_vars

\* what the event loop guarantees to a task inside asyncio.wait_for: time
\* passes, the timer fires, and a resumed task runs
Fairness ==
    \A t \in Tasks :
        /\ WF_vars(tick(t))
        /\ WF_vars(wait_done(t))
        /\ WF_vars(timeout_fire(t))
        /\ WF_vars(timeout_cleanup(t))

LiveSpec == Init /\ [][Next]_vars /\ Fairness

\* ------------------------------------------------------- extract_content
\* Texts are sequences of character tokens; "" is the empty sequence.
\* dict.get(key, default)
Get(d, key, default) == IF key \in DOMAIN d THEN d[key] ELSE default

\* a join that forgets the separator
join_concat(sep, list) ==
    LET RECURSIVE cat(_)
        cat(l) == IF l = <<>> THEN <<>> ELSE l[1] \o cat(Tail(l))
    IN  cat(list)

\* sep.join(list)
RECURSIVE join(_, _)
join(sep, list) ==
    IF list = <<>> THEN <<>>
    ELSE IF Len(list) = 1 THEN list[1]
    ELSE list[1] \o sep \o join(sep, Tail(list))

\* `b.get("type") == "text"`
IsTextBlock(b) == "type" \in DOMAIN b /\ b.type = "text"

\* `[b.get("text", "") for b in content if b.get("type") == "text"]`
TextsOf(content) ==
    LET kept == SelectSeq(content, IsTextBlock)
    IN  [i \in 1..Len(kept) |-> Get(kept[i], "text", <<>>)]

\* extract_content(response); `not response` holds for None and for {}
extract_content(response) ==
    IF \/ DOMAIN response = {}
       \/ "result" \notin DOMAIN response
       \/ "content" \notin DOMAIN response.result
    THEN <<>>
    ELSE join(<<"\n">>, TextsOf(response.result.content))

\* content blocks: text blocks, one with an empty text and one without a
\* text, blocks of another type (one of them carrying a text), and a block
\* without a type
Blocks ==
    { [type |-> "text", text |-> <<"A">>],
      [type |-> "text", text |-> <<"B", "C">>],
      [type |-> "text", text |-> <<>>],
      [type |-> "text"],
      [type |-> "image", data |-> <<"D">>],
      [type |-> "image", text |-> <<"E">>],
      [text |-> <<"F">>] }

\* content lists of at most MaxBlocks blocks
MaxBlocks == 3

RECURSIVE SeqsUpTo(_, _)
SeqsUpTo(S, n) ==
    IF n = 0 THEN {<<>>}
    ELSE LET shorter == SeqsUpTo(S, n - 1)
         IN  shorter \cup { Append(q, x) : q \in shorter, x \in S }

\* what call_tool can return, and what extract_content can be given: nothing,
\* an error-shaped result, an envelope without result, a result without
\* content, and results with a content list
Responses ==
    { <<>>,
      [error |-> <<"t", "i", "m", "e", "o", "u", "t">>],
      [id |-> 1, error |-> [code |-> 1]],
      [id |-> 1],
      [id |-> 1, result |-> [isError |-> TRUE]] } \cup
    { [id |-> 1, result |-> [content |-> c]] : c \in SeqsUpTo(Blocks, MaxBlocks) }

ExtractArgs == { [fn |-> "extract_content", response |-> r] : r \in Responses }

\* print(client.extract_content(res)): the function is applied to a response
apply_extract_content ==
    /\ arg.fn = "extract_content"
    /\ ret = Unset
    /\ ret' = Returns(extract_content(arg.response))
    /\ UNCHANGED <<arg, apiKey, session, request_id, message_url, pending_responses,
                   initialized, sse_task, mpc, polls, pc, req, elapsed, result,
                   posted, connect_error, loop_entered, closeCalls, closeRaised,
                   events>>

\* ------------------------------------------------- endpoint announcements
\* payloads of at most MaxToks tokens
MaxToks == 5
PayloadToks == {"/message", "?", "session_id=", "xyz"} \cup HexToks

\* what the constructor can be given as server_url
RawUrls == { <<"BASE">>, <<"BASE", "/">>, <<"BASE", "/", "/">> }

\* the endpoint before the line: unknown, or set by an earlier announcement
PriorUrls == { None, <<"BASE", "/message", "/old">> }

AnnounceArgs ==
    { [fn |-> "announce", base |-> b, url |-> u, toks |-> t] :
        b \in RawUrls, u \in PriorUrls, t \in SeqsUpTo(PayloadToks, MaxToks) }

\* a client built by HuskyLensClient(base) whose endpoint is url reads the
\* line 'data: <toks>': the endpoint after it
apply_announce ==
    /\ arg.fn = "announce"
    /\ ret = Unset
    /\ ret' = Returns(EndpointFrom(rstrip(arg.base), arg.url, arg.toks))
    /\ UNCHANGED <<arg, apiKey, session, request_id, message_url, pending_responses,
                   initialized, sse_task, mpc, polls, pc, req, elapsed, result,
                   posted, connect_error, loop_entered, closeCalls, closeRaised,
                   events>>

\* ------------------------------------- the functions applied on their own
InitFn ==
    /\ ClientInit
    /\ arg \in ExtractArgs \cup AnnounceArgs
    /\ ret = Unset

NextFn ==
    \/ apply_extract_content
    \/ apply_announce

FnSpec == InitFn /\ [][NextFn]_vars

\* ==================================================================== claims
Returned(t) == pc[t] = "idle" /\ req[t] > 0

\* C1: every call that returns a response envelope returns the envelope whose
\* id is the request id the call allocated, whatever the order in which the
\* envelopes of concurrently outstanding calls arrive; a future is never
\* completed with an envelope carrying another id.
C1_RoutedById ==
    /\ \A t \in Tasks : IsEnvelope(result[t]) => result[t].id = req[t]
    /\ \A i \in DOMAIN pending_responses :
           pending_responses[i].state = "done" => pending_responses[i].value.id = i

\* two calls are outstanding together and the one with the higher id has been
\* answered first: it has returned its own envelope while the call with the
\* lower id is still waiting
C1_Witness ==
    \E t, u \in Tasks :
        /\ Returned(t) /\ IsEnvelope(result[t]) /\ result[t].id = req[t]
        /\ pc[u] = "waiting" /\ pending_responses[req[u]].state = "pending"
        /\ req[u] < req[t]

\* C2 (as claimed): while initialized is still False no tool call is posted
\* and every call_tool has failed with "Not connected.".
C2_NoCallBeforeHandshake ==
    ~initialized =>
        /\ \A r \in posted : r.method # "tools/call"
        /\ \A c \in Callers :
               pc[c] = "idle" /\ result[c] \in {NoResult, NotConnected}

\* C3: when the POST fails or the wait times out, the call removes its own id
\* from the pending-request mapping and returns an error-shaped result; the
\* entries of the other outstanding calls and the request-id counter are left
\* as they were.
C3_ErrorPathCleansUp ==
    [][\A t \in Tasks :
          (post_fail(t) \/ timeout_cleanup(t)) =>
              /\ req[t] \notin DOMAIN pending_responses'
              /\ HasError(result'[t])
              /\ DOMAIN pending_responses' = DOMAIN pending_responses \ {req[t]}
              /\ \A i \in DOMAIN pending_responses' :
                     pending_responses'[i] = pending_responses[i]
              /\ request_id' = request_id]_vars

\* a call has timed out and returned an error while another call's entry is
\* still pending in the mapping
C3_Witness ==
    \E t \in Tasks :
        /\ Returned(t)
        /\ result[t] = ErrorResult("timeout")
        /\ req[t] \notin DOMAIN pending_responses
        /\ \E i \in DOMAIN pending_responses : pending_responses[i].state = "pending"

\* C4: a call whose request was posted and whose response never arrives
\* completes, with a timeout error and not before its timeout has elapsed;
\* a call that is waiting always returns, also when the listener has been
\* cancelled by close() or has ended on a connection error.
C4_TimeoutCompletes ==
    /\ \A t \in Tasks : (pc[t] = "waiting") ~> (pc[t] = "idle")
    /\ [][\A t \in Tasks :
             (pc[t] \in {"waiting", "timedout"} /\ pc'[t] = "idle") =>
                 \/ /\ IsEnvelope(result'[t])
                    /\ pending_responses[req[t]].state = "done"
                 \/ /\ result'[t] = ErrorResult("timeout")
                    /\ pending_responses[req[t]].state # "done"
                    /\ elapsed[t]]_vars

\* the timeout of a waiting call fires while the listener is cancelled
C4_Witness ==
    \E t \in Tasks :
        /\ pc[t] = "timedout"
        /\ elapsed[t]
        /\ sse_task = "cancelled"
        /\ closeCalls > 0

\* the id has no pending future: it is not registered (never issued, or
\* cleaned up after a timeout or a failed POST), or its future is already
\* completed or cancelled
NotPending(id) ==
    \/ id \notin DOMAIN pending_responses
    \/ pending_responses[id].state # "pending"

\* C5: a response envelope whose id is not currently pending (never issued, or
\* arriving after the call with that id timed out and was cleaned up) changes
\* neither the pending-request mapping nor any call's result or position, and
\* the listener goes on running.
C5_UnmatchedIsNoOp ==
    [][\A line \in ResponseLines :
          (NotPending(json_loads(line).id) /\ listen_line(line)) =>
              /\ pending_responses' = pending_responses
              /\ result' = result
              /\ pc' = pc
              /\ sse_task' = "running"]_vars

\* a response arrived for an id whose call had timed out and been cleaned up,
\* and the listener is still running
C5_Witness ==
    /\ "late" \in events
    /\ sse_task = "running"
    /\ \E t \in Tasks :
           /\ Returned(t)
           /\ result[t] = ErrorResult("timeout")
           /\ req[t] \notin DOMAIN pending_responses

\* C6 (as claimed): the mapping contains only ids of calls that have not yet
\* returned.
C6_OnlyUnreturnedCalls ==
    DOMAIN pending_responses \subseteq { req[t] : t \in { u \in Tasks : pc[u] # "idle" } }

\* C7: request ids are unique and strictly increasing and never reused, also
\* after a timeout or a failed POST and across concurrent calls; there is at
\* most one pending request per id.
C7_IdsNeverReused ==
    [][/\ request_id' >= request_id
       /\ \A r \in posted : r.id <= request_id
       /\ DOMAIN pending_responses \subseteq 1..request_id
       /\ \A t \in Tasks : req[t] <= request_id
       /\ \A t \in Tasks : req'[t] # req[t] => req'[t] > request_id
       /\ \A i \in DOMAIN pending_responses' \ DOMAIN pending_responses :
              i > request_id
       /\ \A t, u \in Tasks :
              t # u /\ pc[t] # "idle" /\ pc[u] # "idle" => req[t] # req[u]]_vars

\* after a call timed out, a later call is outstanding under a higher id
C7_Witness ==
    /\ Returned("c1")
    /\ result["c1"] = ErrorResult("timeout")
    /\ pc["main"] = "waiting"
    /\ req["main"] > req["c1"]

\* C8 (as claimed): the notification is posted and initialized is set only
\* after a response to the initialize request has been received.
C8_ReadyOnlyAfterResponse ==
    (initialized \/ Notification \in posted) =>
        \E r \in posted :
            /\ r.method = "initialize"
            /\ r.id \in DOMAIN pending_responses
            /\ pending_responses[r.id].state = "done"

\* C9: when the polling of connect() is exhausted without an endpoint,
\* connect() raises and main() ends; after that failure no request was ever
\* posted, initialized is False and main_loop() was never entered.
C9_ConnectFailsWithoutEndpoint ==
    /\ [][(mpc = "polling" /\ message_url = None /\ polls = MaxPolls /\ mpc' # mpc) =>
             (mpc' = "exited" /\ connect_error' = "no_url")]_vars
    /\ [](connect_error = "no_url" =>
             /\ mpc = "exited"
             /\ posted = {}
             /\ ~initialized
             /\ ~loop_entered)

\* connect() failed for want of an endpoint after the listener had ended on a
\* connection error
C9_Witness ==
    /\ connect_error = "no_url"
    /\ sse_task = "finished"
    /\ polls = MaxPolls

\* C10: no close() raises and none leaves the listener running, whether it is
\* the first or a repeated call, before connect() or after connect() failed.
C10_CloseIsSafe ==
    [][closeCalls' # closeCalls => (~closeRaised' /\ sse_task' # "running")]_vars

\* close() ran twice after connect() had started the listener and failed
C10_Witness ==
    /\ closeCalls = 2
    /\ connect_error = "no_url"
    /\ sse_task = "cancelled"
    /\ ~closeRaised

\* C11 (as claimed): with no other task calling, the first tool call posted
\* after connect() returned carries request id 1.
C11_FirstToolCallHasId1 ==
    (req["c1"] = 0 /\ \E r \in posted : r.method = "tools/call") =>
        Request(1, "tools/call") \in posted

\* C11 (amended): connect() returns without error only after it has posted its
\* initialize request under id 1; with no other task calling, the first tool
\* call is then posted under id 2, and the envelope it returns is the one with
\* id 2.
C11_FirstToolCallHasId2 ==
    (loop_entered /\ req["c1"] = 0) =>
        /\ Request(1, "initialize") \in posted
        /\ \A r \in posted : r.method = "tools/call" => r.id >= 2
        /\ (\E r \in posted : r.method = "tools/call") =>
               Request(2, "tools/call") \in posted
        /\ (req["main"] = 2 /\ IsEnvelope(result["main"])) => result["main"].id = 2

\* main()'s first command has called a tool and got back the envelope with id 2
C11_Witness ==
    /\ loop_entered /\ req["c1"] = 0
    /\ mpc = "loop" /\ req["main"] = 2
    /\ Request(2, "tools/call") \in posted
    /\ IsEnvelope(result["main"]) /\ result["main"].id = 2

\* C12 (as claimed): the endpoint is single-assignment: once message_url has
\* been set from the stream, no later step changes its value.
C12_EndpointSetOnce ==
    [][message_url # None => message_url' = message_url]_vars

\* C13 (as claimed): once close() has returned the client is closed for good:
\* no listener runs afterwards.
C13_ClosedIsTerminal ==
    closeCalls > 0 => sse_task # "running"

\* the first n blocks of a content list rendered block by block: a block of
\* type "text" adds its text (the empty text when it has none) on a new line,
\* any other block adds nothing
RECURSIVE Rendered(_, _)
Rendered(content, n) ==
    IF n = 0 THEN [any |-> FALSE, out |-> <<>>]
    ELSE LET before == Rendered(content, n - 1)
             b == content[n]
             text == IF "text" \in DOMAIN b THEN b.text ELSE <<>>
         IN  IF "type" \in DOMAIN b /\ b.type = "text"
             THEN [any |-> TRUE,
                   out |-> IF before.any THEN before.out \o <<"\n">> \o text
                           ELSE text]
             ELSE before

\* C14: extract_content returns the texts of exactly the blocks of type "text"
\* of result.content, in their order, joined by a newline, blocks of another
\* type adding nothing; it returns the empty string for an empty or
\* error-shaped envelope and for one without 'result' or 'result.content'.
C14_ExtractContent ==
    (arg.fn = "extract_content" /\ ret.set) =>
        LET r == arg.response
            has == /\ "result" \in DOMAIN r
                   /\ "content" \in DOMAIN r.result
        IN  /\ ~has => ret.val = <<>>
            /\ has => ret.val = Rendered(r.result.content,
                                         Len(r.result.content)).out

\* the function was applied to [text A, image, text B C] and returned the two
\* texts on two lines
C14_Witness ==
    /\ arg.fn = "extract_content" /\ ret.set
    /\ "result" \in DOMAIN arg.response
    /\ "content" \in DOMAIN arg.response.result
    /\ arg.response.result.content =
           << [type |-> "text", text |-> <<"A">>],
              [type |-> "image", data |-> <<"D">>],
              [type |-> "text", text |-> <<"B", "C">>] >>
    /\ ret.val = <<"A", "\n", "B", "C">>

\* C15: a line 'data: <path>' whose payload is a path of the form
\* /message?session_id=<id>, <id> made of hex digits and dashes, sets the
\* endpoint to the base without its trailing slashes followed by the whole
\* path; a payload that contains 'session_id=' and no such path leaves the
\* endpoint as it was.
C15_EndpointFromAnnouncement ==
    (arg.fn = "announce" /\ ret.set) =>
        LET toks == arg.toks
            n == Len(toks)
            base == arg.base
            k == CHOOSE m \in 0..Len(base) :
                     /\ \A i \in (m + 1)..Len(base) : base[i] = "/"
                     /\ m > 0 => base[m] # "/"
            isPath == /\ n >= 4
                      /\ SubSeq(toks, 1, 3) = <<"/message", "?", "session_id=">>
                      /\ \A i \in 4..n : toks[i] \in HexToks
            pathAt(i) == /\ i + 3 <= n
                         /\ SubSeq(toks, i, i + 2) = <<"/message", "?", "session_id=">>
                         /\ toks[i + 3] \in HexToks
        IN  /\ isPath => ret.val = SubSeq(base, 1, k) \o toks
            /\ ((\E i \in 1..n : toks[i] = "session_id=") /\
                (\A i \in 1..n : ~pathAt(i))) => ret.val = arg.url

\* a client built with a base ending in '/' has read the announcement of a
\* path whose id spans two tokens: the endpoint is the stripped base and the
\* whole path
C15_Witness ==
    /\ arg.fn = "announce" /\ ret.set
    /\ arg.base = <<"BASE", "/">>
    /\ arg.url = None
    /\ arg.toks = <<"/message", "?", "session_id=", "abc-123", "abc-123">>
    /\ ret.val = <<"BASE", "/message", "?", "session_id=", "abc-123", "abc-123">>

\* C16: an error-shaped result of call_tool, or an exception raised while a
\* command is read or handled, never ends the command loop: main_loop() goes
\* back to accepting a command, and it is left only by the quit command.
C16_LoopEndsOnlyOnQuit ==
    [][/\ (mpc = "call" /\ pc["main"] # "idle" /\ pc'["main"] = "idle") => mpc' = "loop"
       /\ loop_raise => mpc' = "loop"
       /\ (mpc \in {"loop", "call"} /\ mpc' \notin {"loop", "call"}) => loop_quit]_vars

\* a tool call of the command loop has timed out and the loop is accepting
\* the next command
C16_Witness ==
    /\ loop_entered /\ mpc = "loop"
    /\ Request(req["main"], "tools/call") \in posted
    /\ result["main"] = ErrorResult("timeout")

\* C17 (as claimed): a payload that is not JSON, is JSON but no object, is an object
\* without 'id' or is the '[DONE]' sentinel, and a line without the 'data: '
\* prefix, are dropped: the endpoint, the pending-request mapping with every
\* future in it and every call are left as they were, and the listener reads
\* on (a step either leaves all of these as they were or handles no such line).
C17_MalformedDropped ==
    [][\/ /\ message_url' = message_url
          /\ pending_responses' = pending_responses
          /\ result' = result
          /\ pc' = pc
          /\ sse_task' = "running"
       \/ \A line \in DroppedLines : ~listen_line(line)]_vars

\* C18: a future is completed once: when a second response with the same id
\* arrives, before or after the call has returned, the future keeps the first
\* envelope, the second changes no call's result or position, the listener
\* goes on running, and the call returns the envelope its future holds.
C18_CompletedOnce ==
    [][/\ \A i \in DOMAIN pending_responses :
              (pending_responses[i].state = "done" /\ i \in DOMAIN pending_responses') =>
                  pending_responses'[i] = pending_responses[i]
       /\ \/ /\ pending_responses' = pending_responses
             /\ result' = result
             /\ pc' = pc
             /\ sse_task' = "running"
          \/ \A line \in ResponseLines :
                 ~(/\ IsRegistered(pending_responses, json_loads(line).id)
                   /\ pending_responses[json_loads(line).id].state = "done"
                   /\ listen_line(line))
       /\ \A t \in Tasks :
              (pc[t] \in {"posting", "waiting"} /\ pc'[t] = "idle" /\
               IsEnvelope(result'[t])) =>
                  result'[t] = pending_responses[req[t]].value]_vars

\* a second, different response to request 1 arrived after the first, and the
\* call of request 1 has returned the envelope its future holds
C18_Witness ==
    /\ events = {"duplicate"}
    /\ sse_task = "running"
    /\ \E t \in Tasks :
           /\ req[t] = 1 /\ Returned(t) /\ IsEnvelope(result[t])
           /\ pending_responses[1] = FutDone(result[t])

\* C19: the future of a request is registered before its POST is issued, in
\* the step that allocates the id: a response the listener receives while the
\* POST is in flight completes that future, and the call returns it as soon
\* as the POST completes.
C19_RegisteredBeforePost ==
    /\ [](\A t \in Tasks :
              pc[t] = "posting" => IsRegistered(pending_responses, req[t]))
    /\ [][\A t \in Tasks :
             /\ \A line \in ResponseLines :
                    (/\ pc[t] = "posting"
                     /\ json_loads(line).id = req[t]
                     /\ IsRegistered(pending_responses, req[t])
                     /\ pending_responses[req[t]].state = "pending"
                     /\ listen_line(line)) =>
                        pending_responses'[req[t]] = FutDone(json_loads(line))
             /\ (/\ pc[t] = "posting"
                 /\ IsRegistered(pending_responses, req[t])
                 /\ pending_responses[req[t]].state = "done"
                 /\ post_done(t)) =>
                    /\ pc'[t] = "idle"
                    /\ result'[t] = pending_responses[req[t]].value]_vars

\* the response to a request has been received while its POST is in flight
C19_Witness ==
    \E t \in Tasks :
        /\ pc[t] = "posting"
        /\ IsRegistered(pending_responses, req[t])
        /\ pending_responses[req[t]].state = "done"
        /\ pending_responses[req[t]].value.id = req[t]

\* the lines whose payload contains 'session_id=' or starts with '/message'
AnnouncementLikeLines ==
    { line \in Lines :
        /\ line.pre
        /\ Contains(line.toks, "session_id=") \/ StartsWith(line.toks, "/message") }

\* C20: a payload that contains 'session_id=' or starts with '/message' is
\* handled as an announcement and never as a response: also when it is a JSON
\* object whose id is pending it completes no future and changes no call, so
\* that call is left to its timeout (a step either leaves the futures and the
\* calls as they were or handles no such line).
C20_AnnouncementNeverResolves ==
    [][\/ /\ pending_responses' = pending_responses
          /\ result' = result
          /\ pc' = pc
       \/ \A line \in AnnouncementLikeLines : ~listen_line(line)]_vars

\* a response to request 1 that mentions 'session_id=' arrived while request 1
\* was pending, and the call of request 1 has ended by its timeout
C20_Witness ==
    /\ events = {"mention"}
    /\ \E t \in Tasks :
           /\ req[t] = 1 /\ Returned(t)
           /\ result[t] = ErrorResult("timeout")

====
